---- MODULE Spec2Model ----
(***************************************************************************)
(* Ledger core of the marketplace-payments backend (src/src/app.js):       *)
(* POST /jobs/:job_id/pay and POST /balances/deposit/:userId, each run by  *)
(* concurrent requests that interleave at their awaits, over a store of    *)
(* Profile, Contract and Job rows with transactions and row locks; and the *)
(* read-only routes: GET /admin/best-profession and /admin/best-clients    *)
(* behind validateDateRange (src/unnamed/part_000), GET /contracts/:id.    *)
(***************************************************************************)
EXTENDS Integers, FiniteSets, Sequences, TLC

(* ------------------------------ bounds -------------------------------- *)

\* deposits are accepted for as long as the committed deposits total less
MaxDeposited == 2

(* ------------------------------ the rows ------------------------------ *)

\* the requests in flight at the same time
Slots == {"r1", "r2"}

Profiles == 1..3

Contracts == 1..2

Jobs == 1..4

\* a profile_id header that resolves to no Profile
NoCaller == 0

\* a job id that names no Job row
NoJobId == 999

\* Job.paymentDate of a job that was never paid (null)
NoDate == 0

\* no transaction holds the row
NoLock == "none"

InitBalance == [p \in Profiles |-> CASE p = 1 -> 10 [] p = 2 -> 5 [] OTHER -> 5]

Contract == [c \in Contracts |->
    IF c = 1 THEN [ClientId |-> 1, ContractorId |-> 2, status |-> "in_progress"]
             ELSE [ClientId |-> 3, ContractorId |-> 2, status |-> "terminated"]]

JobRow == [j \in Jobs |->
    CASE j = 1 -> [price |-> 2, ContractId |-> 1]
      [] j = 2 -> [price |-> 3, ContractId |-> 1]
      [] j = 3 -> [price |-> 8, ContractId |-> 1]
      [] OTHER -> [price |-> 8, ContractId |-> 2]]

InitPaid == [j \in Jobs |-> j = 1]

InitPaymentDate == [j \in Jobs |-> IF j = 1 THEN 1 ELSE NoDate]

\* the amounts a deposit request carries in its body
Amounts == {-1, 0, 2, 3}

(* ------------------------- the rows the reports read ------------------ *)

\* a contract id that names no Contract row
NoContractId == 999

\* a query parameter the request does not carry
Undefined == "undefined"

\* the number that is not a number: new Date("invalid-date").getTime(),
\* parseInt("abc")
NaN == -1

\* JSON of a result without a profession
Null == "null"

ReportJobs == 1..3

ReportContracts == 1..3

\* each contract joined with its Client and its Contractor; the contractors of
\* contracts 1 and 2 are two people of one profession
ReportContract == [c \in ReportContracts |->
    CASE c = 1 -> [Client |-> [id |-> 1, firstName |-> "Test", lastName |-> "Client"],
                   Contractor |-> [id |-> 2, profession |-> "Test Worker"]]
      [] c = 2 -> [Client |-> [id |-> 3, firstName |-> "Other", lastName |-> "Buyer"],
                   Contractor |-> [id |-> 4, profession |-> "Test Worker"]]
      [] OTHER -> [Client |-> [id |-> 5, firstName |-> "Third", lastName |-> "Payer"],
                   Contractor |-> [id |-> 6, profession |-> "Test Singer"]]]

ReportPrice == <<2, 2, 3>>

\* the instants a job was paid at: never, at the instant "2024-01-01" names, at
\* the instant "2024-12-31" names, later
PaymentDates == {NoDate, 1, 2, 3}

\* the Job tables the reports are run over: every job on any contract, unpaid
\* or paid at any of the instants
JobTables ==
    {[j \in ReportJobs |-> [ContractId |-> c[j], price |-> ReportPrice[j],
                            paid |-> d[j] # NoDate, paymentDate |-> d[j]]] :
        c \in [ReportJobs -> ReportContracts], d \in [ReportJobs -> PaymentDates]}

\* the table of the test: a paid job and an unpaid one on contract 1
SeedJobTable == [j \in ReportJobs |->
    CASE j = 1 -> [ContractId |-> 1, price |-> 2, paid |-> TRUE, paymentDate |-> 1]
      [] j = 2 -> [ContractId |-> 1, price |-> 2, paid |-> FALSE, paymentDate |-> NoDate]
      [] OTHER -> [ContractId |-> 3, price |-> 3, paid |-> FALSE, paymentDate |-> NoDate]]

\* req.query.start and req.query.end as the requests carry them
DateStrings == {Undefined, "invalid-date", "2024-01-01", "2024-12-31"}

\* req.query.limit as the requests carry it
LimitStrings == {Undefined, "1", "2", "3", "abc"}

(* ------------------------------ the state ----------------------------- *)

VARIABLES
    balance,        \* Profile.balance, committed
    paid,           \* Job.paid, committed
    paymentDate,    \* Job.paymentDate, committed
    lockP,          \* the transaction holding each Profile row's lock
    lockJ,          \* the transaction holding each Job row's lock
    now,            \* the clock: the instant the next new Date() returns
    pc,             \* each request's position in its handler
    route,          \* the handler a request runs
    profile,        \* req.profile, as getProfile resolved it
    job_id,         \* req.params.job_id
    userId,         \* req.params.userId
    amount,         \* req.body.amount
    transaction,    \* the state of the request's transaction
    job,            \* the job Job.findOne returned
    contractor,     \* the contractor row Profile.findOne returned
    totalJobsToPay, \* the sum Job.sum returned
    writes,         \* the updates made inside the transaction, not yet committed
    response,       \* the response the request sent
    deposited,      \* history: the amounts of the deposits that committed
    payCount,       \* history: how many payments of each job committed
    jobTable,       \* the Job rows the reports aggregate
    req,            \* the read-only request: its route, req.query, caller, req.params.id
    rpc,            \* the read-only request's position
    res             \* the response the read-only request got

vars == <<balance, paid, paymentDate, lockP, lockJ, now, pc, route, profile, job_id,
          userId, amount, transaction, job, contractor, totalJobsToPay, writes,
          response, deposited, payCount, jobTable, req, rpc, res>>

rvars == <<jobTable, req, rpc, res>>

store == <<balance, paid, paymentDate>>

NoProfile == [id |-> NoCaller, balance |-> 0]

NoJob == [id |-> NoJobId, price |-> 0, ClientId |-> NoCaller, ContractorId |-> NoCaller]

NoResponse == [status |-> 0, text |-> ""]

NoWrites == [balance |-> {}, job |-> {}]

Reply(status, text) == [status |-> status, text |-> text]

NoContract == [id |-> NoContractId, ClientId |-> NoCaller, ContractorId |-> NoCaller]

NoReq == [route |-> "none", start |-> Undefined, end |-> Undefined, limit |-> Undefined,
          profile_id |-> NoCaller, id |-> NoContractId]

NoRes == [status |-> 0, error |-> "", profession |-> Null, clients |-> << >>,
          contract |-> NoContract]

RECURSIVE SumOver(_, _)
SumOver(f, S) == IF S = {} THEN 0
                 ELSE LET x == CHOOSE y \in S : TRUE IN f[x] + SumOver(f, S \ {x})

Ledger ==
    /\ balance = InitBalance
    /\ paid = InitPaid
    /\ paymentDate = InitPaymentDate
    /\ lockP = [p \in Profiles |-> NoLock]
    /\ lockJ = [j \in Jobs |-> NoLock]
    /\ now = 2
    /\ pc = [s \in Slots |-> "idle"]
    /\ route = [s \in Slots |-> "none"]
    /\ profile = [s \in Slots |-> NoProfile]
    /\ job_id = [s \in Slots |-> NoJobId]
    /\ userId = [s \in Slots |-> NoCaller]
    /\ amount = [s \in Slots |-> 0]
    /\ transaction = [s \in Slots |-> "none"]
    /\ job = [s \in Slots |-> NoJob]
    /\ contractor = [s \in Slots |-> NoProfile]
    /\ totalJobsToPay = [s \in Slots |-> 0]
    /\ writes = [s \in Slots |-> NoWrites]
    /\ response = [s \in Slots |-> NoResponse]
    /\ deposited = 0
    /\ payCount = [j \in Jobs |-> 0]

Init ==
    /\ Ledger
    /\ jobTable = SeedJobTable
    /\ req = NoReq
    /\ rpc = "idle"
    /\ res = NoRes

(* ------------------------------ the store ----------------------------- *)

\* getProfile: the Profile row the profile_id header names, read outside any
\* transaction, or none
GetProfile(caller) ==
    IF caller \in Profiles THEN [id |-> caller, balance |-> balance[caller]]
    ELSE NoProfile

\* a row lock is free for a transaction when no other transaction holds it
RowFree(lock, row, s) == lock[row] \in {NoLock, s}

\* commit or rollback: the transaction's row locks are released
Release(lock, s) == [r \in DOMAIN lock |-> IF lock[r] = s THEN NoLock ELSE lock[r]]

\* commit: the transaction's Profile updates reach the store
CommitBalance(w) ==
    [p \in Profiles |-> IF \E u \in w.balance : u[1] = p
                        THEN (CHOOSE u \in w.balance : u[1] = p)[2]
                        ELSE balance[p]]

\* commit: the transaction's Job updates reach the store
CommitPaid(w) == [j \in Jobs |-> IF \E u \in w.job : u[1] = j THEN TRUE ELSE paid[j]]

CommitPaymentDate(w) ==
    [j \in Jobs |-> IF \E u \in w.job : u[1] = j
                    THEN (CHOOSE u \in w.job : u[1] = j)[2]
                    ELSE paymentDate[j]]

(* ------------------------------ the queries --------------------------- *)

JobView(j) ==
    [id |-> j, price |-> JobRow[j].price,
     ClientId |-> Contract[JobRow[j].ContractId].ClientId,
     ContractorId |-> Contract[JobRow[j].ContractId].ContractorId]

\* Job.findOne with the paid filter left out
FindJobAnyPaid(jid, caller) ==
    IF jid \in Jobs /\ Contract[JobRow[jid].ContractId].ClientId = caller
    THEN JobView(jid)
    ELSE NoJob

\* Job.findOne with the ClientId filter of the joined Contract left out
FindJobAnyCaller(jid, caller) ==
    IF jid \in Jobs /\ paid[jid] # TRUE THEN JobView(jid) ELSE NoJob

\* Job.findOne: where id = job_id and paid is not true, joined to a Contract
\* whose ClientId is the caller
FindUnpaidJob(jid, caller) ==
    IF /\ jid \in Jobs
       /\ paid[jid] # TRUE
       /\ Contract[JobRow[jid].ContractId].ClientId = caller
    THEN JobView(jid)
    ELSE NoJob

\* Job.findOne without lock: true
FindJobNoLock == FALSE

\* Job.findOne is given lock: true
FindJobLock == TRUE

\* the funds check left out
NoFundsCheck(bal, price) == FALSE

\* the funds check with its comparison turned round
FundsCheckReversed(bal, price) == bal > price

\* req.profile.balance < job.price
InsufficientFunds(bal, price) == bal < price

\* the balance written to the paying profile's row
ClientNewBalance(bal, price) == bal - price

\* the contractor's row written back without the price
ContractorNotCredited(bal, price) == bal

\* the balance written to the contractor's row
ContractorNewBalance(bal, price) == bal + price

\* the update of the job row with paymentDate left out
JobUpdateNoDate(j, date) == {<<j, NoDate>>}

\* the update of the job row: paid, and paymentDate = new Date()
JobUpdate(j, date) == {<<j, date>>}

\* Job.sum('price'): unpaid jobs of the user's in_progress contracts as client;
\* null for no row, which the arithmetic that follows reads as 0
TotalUnpaid(uid) ==
    LET mine == {j \in Jobs :
                    /\ paid[j] # TRUE
                    /\ Contract[JobRow[j].ContractId].ClientId = uid
                    /\ Contract[JobRow[j].ContractId].status = "in_progress"}
    IN SumOver([j \in Jobs |-> JobRow[j].price], mine)

\* amount < 0
InvalidAmount(a) == a < 0

\* amount >= totalJobsToPay * 0.25
ReachesMaxDeposit(a, total) == 4 * a >= total

\* the cap taken off by what was deposited before
ExceedsMaxWithEarlier(a, total) == 4 * (a + deposited) > total

\* amount > totalJobsToPay * 0.25
ExceedsMaxDeposit(a, total) == 4 * a > total

\* balance + amount, evaluated by the store on the row
DepositNewBalance(bal, a) == bal + a

\* the deposit added to the balance the caller's req.profile holds
DepositBaseInMemory(s) == profile[s].balance

\* the balance the increment is applied to: the target row's own column, read by
\* the store as it updates the row (sequelize.literal)
DepositBase(s) == balance[userId[s]]

\* the job update made without the transaction option
TxUpdatesButJob(w) == [w EXCEPT !.job = {}]

\* the payment's updates that are made inside the transaction: each of the
\* three is passed { transaction }
TxUpdates(w) == w

(* ------------------------------ requests ----------------------------- *)

\* the request reaches its handler's next await with its transaction open
Goto(s, label) ==
    /\ pc' = [pc EXCEPT ![s] = label]
    /\ transaction' = [transaction EXCEPT ![s] = "open"]
    /\ response' = [response EXCEPT ![s] = NoResponse]

\* the request sends its response and ends: the handler's locals are gone with
\* it, the request (req.profile, req.params, req.body) stays until the next one
Respond(s, status, text, tx) ==
    /\ pc' = [pc EXCEPT ![s] = "done"]
    /\ transaction' = [transaction EXCEPT ![s] = tx]
    /\ response' = [response EXCEPT ![s] = Reply(status, text)]
    /\ job' = [job EXCEPT ![s] = NoJob]
    /\ contractor' = [contractor EXCEPT ![s] = NoProfile]
    /\ totalJobsToPay' = [totalJobsToPay EXCEPT ![s] = 0]
    /\ writes' = [writes EXCEPT ![s] = NoWrites]

(* ------------------------------ payJob -------------------------------- *)

\* a request arrives: getProfile resolves the caller, the handler opens its
\* transaction
StartPay(s, caller, jid) ==
    /\ pc[s] \in {"idle", "done"}
    /\ route' = [route EXCEPT ![s] = "pay"]
    /\ profile' = [profile EXCEPT ![s] = GetProfile(caller)]
    /\ job_id' = [job_id EXCEPT ![s] = jid]
    /\ userId' = [userId EXCEPT ![s] = NoCaller]
    /\ amount' = [amount EXCEPT ![s] = 0]
    /\ IF caller \in Profiles
       THEN /\ Goto(s, "pay_find")
            /\ UNCHANGED <<job, contractor, totalJobsToPay, writes>>
       ELSE Respond(s, 401, "", "none")
    /\ UNCHANGED <<balance, paid, paymentDate, lockP, lockJ, now, deposited, payCount>>

\* Job.findOne under lock, then the two business-rule exits
PayFindJob(s) ==
    /\ pc[s] = "pay_find"
    /\ (FindJobLock /\ job_id[s] \in Jobs) => RowFree(lockJ, job_id[s], s)
    /\ LET found == FindUnpaidJob(job_id[s], profile[s].id) IN
       IF found = NoJob
       THEN /\ Respond(s, 404, "Job not found or already paid", "rolledback")
            /\ UNCHANGED lockJ
       ELSE IF InsufficientFunds(profile[s].balance, found.price)
       THEN /\ Respond(s, 400, "Insufficient funds", "rolledback")
            /\ UNCHANGED lockJ
       ELSE /\ lockJ' = IF FindJobLock THEN [lockJ EXCEPT ![found.id] = s] ELSE lockJ
            /\ job' = [job EXCEPT ![s] = found]
            /\ pc' = [pc EXCEPT ![s] = "pay_contractor"]
            /\ UNCHANGED <<transaction, response, contractor, totalJobsToPay, writes>>
    /\ UNCHANGED <<balance, paid, paymentDate, lockP, now, route, profile, job_id, userId,
                   amount, deposited, payCount>>

\* Profile.findOne of the contractor, under lock
PayLoadContractor(s) ==
    /\ pc[s] = "pay_contractor"
    /\ RowFree(lockP, job[s].ContractorId, s)
    /\ lockP' = [lockP EXCEPT ![job[s].ContractorId] = s]
    /\ contractor' = [contractor EXCEPT ![s] =
            [id |-> job[s].ContractorId, balance |-> balance[job[s].ContractorId]]]
    /\ pc' = [pc EXCEPT ![s] = "pay_update"]
    /\ UNCHANGED <<balance, paid, paymentDate, lockJ, now, route, profile, job_id, userId,
                   amount, transaction, job, totalJobsToPay, writes, response, deposited,
                   payCount>>

\* the three updates inside the transaction
PayUpdate(s) ==
    /\ pc[s] = "pay_update"
    /\ RowFree(lockP, profile[s].id, s)
    /\ lockP' = [lockP EXCEPT ![profile[s].id] = s]
    /\ LET updates ==
            [balance |-> {<<profile[s].id, ClientNewBalance(profile[s].balance, job[s].price)>>,
                          <<contractor[s].id,
                            ContractorNewBalance(contractor[s].balance, job[s].price)>>},
             job |-> JobUpdate(job[s].id, now)]
           inside == TxUpdates(updates)
           outside == [balance |-> updates.balance \ inside.balance,
                       job |-> updates.job \ inside.job]
       IN /\ writes' = [writes EXCEPT ![s] = inside]
          /\ balance' = CommitBalance(outside)
          /\ paid' = CommitPaid(outside)
          /\ paymentDate' = CommitPaymentDate(outside)
    /\ now' = now + 1
    /\ pc' = [pc EXCEPT ![s] = "pay_commit"]
    /\ UNCHANGED <<lockJ, route, profile, job_id, userId, amount, transaction, job,
                   contractor, totalJobsToPay, response, deposited, payCount>>

\* transaction.commit() and the response
PayCommit(s) ==
    /\ pc[s] = "pay_commit"
    /\ balance' = CommitBalance(writes[s])
    /\ paid' = CommitPaid(writes[s])
    /\ paymentDate' = CommitPaymentDate(writes[s])
    /\ lockP' = Release(lockP, s)
    /\ lockJ' = Release(lockJ, s)
    /\ payCount' = [payCount EXCEPT ![job[s].id] = @ + 1]
    /\ Respond(s, 200, "Payment successful", "committed")
    /\ UNCHANGED <<now, route, profile, job_id, userId, amount, deposited>>

\* the contractor's row cannot be loaded or an update throws: the catch block
\* rolls the transaction back and answers 500
PayFail(s) ==
    /\ pc[s] \in {"pay_contractor", "pay_update"}
    /\ lockP' = Release(lockP, s)
    /\ lockJ' = Release(lockJ, s)
    /\ Respond(s, 500, "Payment failed", "rolledback")
    /\ UNCHANGED <<balance, paid, paymentDate, now, route, profile, job_id, userId, amount,
                   deposited, payCount>>

(* ------------------------------ deposit ------------------------------- *)

\* a request arrives: getProfile resolves the caller, the handler opens its
\* transaction and screens the amount
StartDeposit(s, caller, uid, a) ==
    /\ pc[s] \in {"idle", "done"}
    /\ deposited < MaxDeposited
    /\ route' = [route EXCEPT ![s] = "deposit"]
    /\ profile' = [profile EXCEPT ![s] = GetProfile(caller)]
    /\ job_id' = [job_id EXCEPT ![s] = NoJobId]
    /\ userId' = [userId EXCEPT ![s] = uid]
    /\ amount' = [amount EXCEPT ![s] = a]
    /\ IF caller \notin Profiles
       THEN Respond(s, 401, "", "none")
       ELSE IF InvalidAmount(a)
       THEN Respond(s, 400, "Insufficient amount", "open")
       ELSE /\ Goto(s, "dep_sum")
            /\ UNCHANGED <<job, contractor, totalJobsToPay, writes>>
    /\ UNCHANGED <<balance, paid, paymentDate, lockP, lockJ, now, deposited, payCount>>

\* Job.sum inside the transaction, then the 25% exit
DepSum(s) ==
    /\ pc[s] = "dep_sum"
    /\ LET total == TotalUnpaid(userId[s]) IN
       IF ExceedsMaxDeposit(amount[s], total)
       THEN Respond(s, 400, "Deposit amount exceeds 25% of total jobs to pay", "rolledback")
       ELSE /\ totalJobsToPay' = [totalJobsToPay EXCEPT ![s] = total]
            /\ pc' = [pc EXCEPT ![s] = "dep_update"]
            /\ UNCHANGED <<transaction, response, job, contractor, writes>>
    /\ UNCHANGED <<balance, paid, paymentDate, lockP, lockJ, now, route, profile, job_id,
                   userId, amount, deposited, payCount>>

\* Profile.update: balance = balance + amount where id = userId
DepUpdate(s) ==
    /\ pc[s] = "dep_update"
    /\ IF userId[s] \in Profiles
       THEN /\ RowFree(lockP, userId[s], s)
            /\ lockP' = [lockP EXCEPT ![userId[s]] = s]
            /\ writes' = [writes EXCEPT ![s] =
                    [balance |-> {<<userId[s], DepositNewBalance(DepositBase(s), amount[s])>>},
                     job |-> {}]]
       ELSE UNCHANGED <<lockP, writes>>
    /\ pc' = [pc EXCEPT ![s] = "dep_commit"]
    /\ UNCHANGED <<balance, paid, paymentDate, lockJ, now, route, profile, job_id, userId,
                   amount, transaction, job, contractor, totalJobsToPay, response,
                   deposited, payCount>>

\* transaction.commit() and the response
DepCommit(s) ==
    /\ pc[s] = "dep_commit"
    /\ balance' = CommitBalance(writes[s])
    /\ lockP' = Release(lockP, s)
    /\ deposited' = IF userId[s] \in Profiles THEN deposited + amount[s] ELSE deposited
    /\ Respond(s, 200, "Deposit successful", "committed")
    /\ UNCHANGED <<paid, paymentDate, lockJ, now, route, profile, job_id, userId, amount,
                   payCount>>

\* Profile.update throws: the catch block rolls the transaction back and
\* answers 500
DepFail(s) ==
    /\ pc[s] = "dep_update"
    /\ lockP' = Release(lockP, s)
    /\ Respond(s, 500, "Deposit failed", "rolledback")
    /\ UNCHANGED <<balance, paid, paymentDate, lockJ, now, route, profile, job_id, userId,
                   amount, deposited, payCount>>

(* ------------------------------ the reports --------------------------- *)

\* !start
Falsy(x) == x = Undefined

\* new Date(x).getTime(): the instant the string names or NaN
DateParse(x) == CASE x = "2024-01-01" -> 1
                  [] x = "2024-12-31" -> 2
                  [] OTHER -> NaN

IsNaN(x) == x = NaN

\* a range that is never found reversed
StartAfterEndIgnored(startDate, endDate) == FALSE

\* startDate > endDate
StartAfterEnd(startDate, endDate) == startDate > endDate

\* validateDateRange: the error it answers 400 with, or none when it calls next()
NoError == ""

DateRangeError(start, end) ==
    IF Falsy(start) \/ Falsy(end) THEN "Both start and end dates are required"
    ELSE IF IsNaN(DateParse(start)) \/ IsNaN(DateParse(end))
         THEN "Invalid date format. Use YYYY-MM-DD"
    ELSE IF StartAfterEnd(DateParse(start), DateParse(end))
         THEN "Start date must be before end date"
    ELSE NoError

\* paymentDate: { [Op.between]: [start, end] }, both ends included; a null
\* paymentDate is between nothing
Between(d, start, end) == d # NoDate /\ DateParse(start) <= d /\ d <= DateParse(end)

\* the where clause without its paymentDate condition
PaidAnyDate(start, end) == {j \in ReportJobs : jobTable[j].paid = TRUE}

\* where: { paid: true, paymentDate: { [Op.between]: [start, end] } }
PaidInWindow(start, end) ==
    {j \in ReportJobs : jobTable[j].paid = TRUE
                        /\ Between(jobTable[j].paymentDate, start, end)}

\* SUM(price) over the rows of a group
SumPrice(rows) == SumOver([j \in ReportJobs |-> jobTable[j].price], rows)

\* the order of the sums, ascending
OrderAsc(a, b) == a <= b

\* order: [[SUM(price), 'DESC']]: a row with sum a may come before one with sum b
OrderDesc(a, b) == a >= b

\* Contract.Contractor.profession
ProfessionOf(j) == ReportContract[jobTable[j].ContractId].Contractor.profession

\* Job.findOne of best-profession: the professions that can be the first row of
\* the groups in descending order of their sums (rows of equal sum come in
\* either order), none when no row matches
BestProfessionRows(start, end) ==
    LET rows == PaidInWindow(start, end)
        groups == {ProfessionOf(j) : j \in rows}
        earned(p) == SumPrice({j \in rows : ProfessionOf(j) = p})
    IN {p \in groups : \A q \in groups : OrderDesc(earned(p), earned(q))}

\* Contract.Client
ClientRow(j) == ReportContract[jobTable[j].ContractId].Client

\* the limit the request carries, 2 when it carries none
DefaultLimit == "2"

\* parseInt(limit)
ParseInt(x) == CASE x = "1" -> 1
                 [] x = "2" -> 2
                 [] x = "3" -> 3
                 [] OTHER -> NaN

Limit(raw) == ParseInt(IF raw = Undefined THEN DefaultLimit ELSE raw)

\* `${job.firstName} ${job.lastName}`
FullName(firstName, lastName) == firstName \o " " \o lastName

Min(a, b) == IF a <= b THEN a ELSE b

\* Job.findAll of best-clients and its map: the results it can give, one entry
\* per client with a matching row, in descending order of the sums (rows of
\* equal sum in either order), cut after limit entries
BestClientsRows(start, end, limit) ==
    LET rows == PaidInWindow(start, end)
        groups == {ClientRow(j) : j \in rows}
        paidBy(c) == SumPrice({j \in rows : ClientRow(j) = c})
        n == Cardinality(groups)
        orders == {o \in [1..n -> groups] :
                        /\ \A i, k \in 1..n : i # k => o[i] # o[k]
                        /\ \A i, k \in 1..n : i < k => OrderDesc(paidBy(o[i]), paidBy(o[k]))}
    IN {[i \in 1..Min(limit, n) |->
            [id |-> o[i].id,
             fullName |-> FullName(o[i].firstName, o[i].lastName),
             paid |-> paidBy(o[i])]] : o \in orders}

\* validateDateRange on a report request: 400, or on to the handler
ValidateDateRange(r, start, end, limit) ==
    /\ rpc = "idle"
    /\ req' = [NoReq EXCEPT !.route = r, !.start = start, !.end = end, !.limit = limit]
    /\ IF DateRangeError(start, end) # NoError
       THEN /\ rpc' = "done"
            /\ res' = [NoRes EXCEPT !.status = 400, !.error = DateRangeError(start, end)]
       ELSE /\ rpc' = "handler"
            /\ res' = NoRes
    /\ UNCHANGED jobTable

\* GET /admin/best-profession
BestProfession ==
    /\ rpc = "handler" /\ req.route = "best-profession"
    /\ LET first == BestProfessionRows(req.start, req.end) IN
       IF first = {}
       THEN res' = [NoRes EXCEPT !.status = 200]
       ELSE \E p \in first : res' = [NoRes EXCEPT !.status = 200, !.profession = p]
    /\ rpc' = "done"
    /\ UNCHANGED <<jobTable, req>>

\* GET /admin/best-profession, the query failed: the catch answers 500
BestProfessionFail ==
    /\ rpc = "handler" /\ req.route = "best-profession"
    /\ res' = [NoRes EXCEPT !.status = 500, !.error = "Error processing date range query"]
    /\ rpc' = "done"
    /\ UNCHANGED <<jobTable, req>>

\* GET /admin/best-clients with a limit that is a number
BestClients ==
    /\ rpc = "handler" /\ req.route = "best-clients"
    /\ ~IsNaN(Limit(req.limit))
    /\ \E clients \in BestClientsRows(req.start, req.end, Limit(req.limit)) :
            res' = [NoRes EXCEPT !.status = 200, !.clients = clients]
    /\ rpc' = "done"
    /\ UNCHANGED <<jobTable, req>>

\* GET /admin/best-clients with limit: NaN: the store rejects the query and the
\* handler has no catch; the request is left without a response, or the
\* framework's error handler answers 500
BestClientsUnhandled ==
    /\ rpc = "handler" /\ req.route = "best-clients"
    /\ IsNaN(Limit(req.limit))
    /\ \/ rpc' = "hung" /\ res' = NoRes
       \/ rpc' = "done" /\ res' = [NoRes EXCEPT !.status = 500, !.error = "Internal Server Error"]
    /\ UNCHANGED <<jobTable, req>>

(* ------------------------------ getContract --------------------------- *)

ContractView(c) == [id |-> c, ClientId |-> Contract[c].ClientId,
                    ContractorId |-> Contract[c].ContractorId]

\* the contract of that id, whoever asks
FindContractAnyCaller(id, caller) ==
    IF id \in Contracts THEN ContractView(id) ELSE NoContract

\* Contract.findOne({ where: { [Op.or]: [{ ContractorId }, { ClientId }], id } })
FindContract(id, caller) ==
    IF /\ id \in Contracts
       /\ (Contract[id].ContractorId = caller \/ Contract[id].ClientId = caller)
    THEN ContractView(id)
    ELSE NoContract

\* GET /contracts/:id
GetContract(caller, id) ==
    /\ rpc = "idle"
    /\ req' = [NoReq EXCEPT !.route = "contracts", !.profile_id = caller, !.id = id]
    /\ IF GetProfile(caller) = NoProfile
       THEN res' = [NoRes EXCEPT !.status = 401]
       ELSE LET contract == FindContract(id, GetProfile(caller).id) IN
            IF contract = NoContract
            THEN res' = [NoRes EXCEPT !.status = 404]
            ELSE res' = [NoRes EXCEPT !.status = 200, !.contract = contract]
    /\ rpc' = "done"
    /\ UNCHANGED jobTable

(* ------------------------------ the system ---------------------------- *)

\* the profile_id headers tried
Callers == Profiles \cup {NoCaller}

\* the job ids tried
JobIds == Jobs \cup {NoJobId}

\* the users deposited to
Targets == {1, 3}

\* the callers of the deposit route, which reads nothing of its caller
DepositCallers == {NoCaller, 1}

Next ==
    \/ \E s \in Slots, caller \in Callers, jid \in JobIds : StartPay(s, caller, jid) /\ UNCHANGED rvars
    \/ \E s \in Slots : PayFindJob(s) /\ UNCHANGED rvars
    \/ \E s \in Slots : PayLoadContractor(s) /\ UNCHANGED rvars
    \/ \E s \in Slots : PayUpdate(s) /\ UNCHANGED rvars
    \/ \E s \in Slots : PayCommit(s) /\ UNCHANGED rvars
    \/ \E s \in Slots : PayFail(s) /\ UNCHANGED rvars
    \/ \E s \in Slots, caller \in DepositCallers, uid \in Targets, a \in Amounts :
            StartDeposit(s, caller, uid, a) /\ UNCHANGED rvars
    \/ \E s \in Slots : DepSum(s) /\ UNCHANGED rvars
    \/ \E s \in Slots : DepUpdate(s) /\ UNCHANGED rvars
    \/ \E s \in Slots : DepCommit(s) /\ UNCHANGED rvars
    \/ \E s \in Slots : DepFail(s) /\ UNCHANGED rvars

Spec == Init /\ [][Next]_vars

\* requests served one at a time: none is in its handler while another runs
Alone(s) == \A r \in Slots \ {s} : pc[r] \in {"idle", "done"}

SeqNext ==
    \/ \E s \in Slots, caller \in Callers, jid \in JobIds : Alone(s) /\ StartPay(s, caller, jid) /\ UNCHANGED rvars
    \/ \E s \in Slots : Alone(s) /\ PayFindJob(s) /\ UNCHANGED rvars
    \/ \E s \in Slots : Alone(s) /\ PayLoadContractor(s) /\ UNCHANGED rvars
    \/ \E s \in Slots : Alone(s) /\ PayUpdate(s) /\ UNCHANGED rvars
    \/ \E s \in Slots : Alone(s) /\ PayCommit(s) /\ UNCHANGED rvars
    \/ \E s \in Slots : Alone(s) /\ PayFail(s) /\ UNCHANGED rvars
    \/ \E s \in Slots, caller \in DepositCallers, uid \in Targets, a \in Amounts :
            Alone(s) /\ StartDeposit(s, caller, uid, a) /\ UNCHANGED rvars
    \/ \E s \in Slots : Alone(s) /\ DepSum(s) /\ UNCHANGED rvars
    \/ \E s \in Slots : Alone(s) /\ DepUpdate(s) /\ UNCHANGED rvars
    \/ \E s \in Slots : Alone(s) /\ DepCommit(s) /\ UNCHANGED rvars
    \/ \E s \in Slots : Alone(s) /\ DepFail(s) /\ UNCHANGED rvars

SeqSpec == Init /\ [][SeqNext]_vars

\* the contract ids tried
ContractIds == Contracts \cup {NoContractId}

lvars == <<balance, paid, paymentDate, lockP, lockJ, now, pc, route, profile, job_id,
           userId, amount, transaction, job, contractor, totalJobsToPay, writes,
           response, deposited, payCount>>

\* the read-only routes, one request over each Job table
ReportInit ==
    /\ Ledger
    /\ jobTable \in JobTables
    /\ req = NoReq
    /\ rpc = "idle"
    /\ res = NoRes

ReportNext ==
    \/ \E start \in DateStrings, end \in DateStrings :
            ValidateDateRange("best-profession", start, end, Undefined) /\ UNCHANGED lvars
    \/ \E start \in DateStrings, end \in DateStrings, limit \in LimitStrings :
            ValidateDateRange("best-clients", start, end, limit) /\ UNCHANGED lvars
    \/ BestProfession /\ UNCHANGED lvars
    \/ BestProfessionFail /\ UNCHANGED lvars
    \/ BestClients /\ UNCHANGED lvars
    \/ BestClientsUnhandled /\ UNCHANGED lvars
    \/ \E caller \in Callers, id \in ContractIds : GetContract(caller, id) /\ UNCHANGED lvars

ReportSpec == ReportInit /\ [][ReportNext]_vars

(* ------------------------------ the claims ---------------------------- *)

ClientOf(j) == Contract[JobRow[j].ContractId].ClientId

ContractorOf(j) == Contract[JobRow[j].ContractId].ContractorId

JobNotFound == Reply(404, "Job not found or already paid")

\* C1: once a payment of a job has committed, a payJob request for that job that
\* queries the job afterwards, whoever its caller, is answered 404 'Job not found
\* or already paid' and changes no Profile balance and no Job.
C1_PaidJobIsNotPaidAgain ==
    [][\A s \in Slots :
        (/\ pc[s] = "pay_find"
         /\ pc'[s] # "pay_find"
         /\ job_id[s] \in Jobs
         /\ payCount[job_id[s]] > 0)
        => (response'[s] = JobNotFound /\ UNCHANGED store)]_vars

\* a second request of job 2 by its client, answered 404 after the job's payment
C1_Witness ==
    \E s \in Slots :
        /\ pc[s] = "done" /\ route[s] = "pay"
        /\ job_id[s] = 2 /\ profile[s].id = ClientOf(2)
        /\ payCount[2] = 1
        /\ response[s] = JobNotFound

\* C2: in every reachable state the Profile balances sum to the initial sum plus
\* the amounts of the deposits that committed.
C2_MoneyConserved ==
    SumOver(balance, Profiles) = SumOver(InitBalance, Profiles) + deposited

\* C3: in every reachable state no Profile balance is negative.
C3_NoNegativeBalance == \A p \in Profiles : balance[p] >= 0

\* both jobs of client 1 paid with no deposit, 3 + 8 out of a balance of 10:
\* only two payments that ran at the same time get there
C3_Witness == payCount[2] = 1 /\ payCount[3] = 1 /\ deposited = 0

\* the requests that hold job j as found unpaid, their transaction open
Holders(j) ==
    {s \in Slots : pc[s] \in {"pay_contractor", "pay_update", "pay_commit"} /\ job[s].id = j}

PaymentSuccessful == Reply(200, "Payment successful")

\* C4: of the payJob requests of one job that run at the same time, at most one
\* holds the job as unpaid, and none does once a payment of it committed; at
\* most one payment of a job commits, and no two requests of the same job are
\* both answered 200.
C4_OnePaymentPerJob ==
    \A j \in Jobs :
        /\ payCount[j] <= 1
        /\ Cardinality(Holders(j)) <= 1
        /\ payCount[j] = 1 => Holders(j) = {}
        /\ \A a, b \in Slots :
            (/\ a # b
             /\ pc[a] = "done" /\ pc[b] = "done"
             /\ job_id[a] = j /\ job_id[b] = j
             /\ response[a] = PaymentSuccessful)
            => response[b] # PaymentSuccessful

\* two requests of job 2, both by its client and both resolved with the balance
\* of 10 that only stands before any payment: one answered 200, the other 404
C4_Witness ==
    \E a, b \in Slots :
        /\ a # b
        /\ pc[a] = "done" /\ pc[b] = "done"
        /\ job_id[a] = 2 /\ job_id[b] = 2
        /\ profile[a] = [id |-> 1, balance |-> 10]
        /\ profile[b] = [id |-> 1, balance |-> 10]
        /\ deposited = 0
        /\ response[a] = PaymentSuccessful
        /\ response[b] = JobNotFound
        /\ payCount[2] = 1

\* C5: with requests served one at a time, a payJob request by the contract's
\* client for an unpaid job whose price is at most the client's balance is not
\* refused, and its commit answers 200 'Payment successful', takes the price off
\* the client's balance, adds it to the contractor's, leaves the other balances
\* alone and marks the job paid with a paymentDate.
C5_PaymentTransfersPrice ==
    [][\A s \in Slots :
        /\ (/\ pc[s] = "pay_find"
            /\ pc'[s] # "pay_find"
            /\ job_id[s] \in Jobs
            /\ ~paid[job_id[s]]
            /\ profile[s].id = ClientOf(job_id[s])
            /\ JobRow[job_id[s]].price <= balance[profile[s].id])
           => pc'[s] = "pay_contractor"
        /\ (pc[s] = "pay_commit" /\ pc'[s] = "done")
           => LET j == job_id[s] IN
              /\ response'[s] = PaymentSuccessful
              /\ balance'[ClientOf(j)] = balance[ClientOf(j)] - JobRow[j].price
              /\ balance'[ContractorOf(j)] = balance[ContractorOf(j)] + JobRow[j].price
              /\ \A p \in Profiles \ {ClientOf(j), ContractorOf(j)} : balance'[p] = balance[p]
              /\ paid'[j]
              /\ paymentDate'[j] # NoDate
              /\ \A k \in Jobs \ {j} : paid'[k] = paid[k] /\ paymentDate'[k] = paymentDate[k]]_vars

\* the scenario: 10 and 5 with price 3 become 7 and 8, the job paid and dated
C5_Witness ==
    \E s \in Slots :
        /\ pc[s] = "done" /\ route[s] = "pay" /\ job_id[s] = 2
        /\ response[s] = PaymentSuccessful
        /\ balance[1] = 7 /\ balance[2] = 8
        /\ paid[2] /\ paymentDate[2] # NoDate

\* C6: a payJob request for an unpaid job of the caller's contract, the caller's
\* balance less than the job's price, is answered 400 'Insufficient funds' and
\* changes no Profile balance and no Job.
C6_InsufficientFunds ==
    [][\A s \in Slots :
        (/\ pc[s] = "pay_find"
         /\ pc'[s] # "pay_find"
         /\ job_id[s] \in Jobs
         /\ ~paid[job_id[s]]
         /\ profile[s].id = ClientOf(job_id[s])
         /\ profile[s].balance < JobRow[job_id[s]].price)
        => (response'[s] = Reply(400, "Insufficient funds") /\ UNCHANGED store)]_vars

\* client 1, left with less than 8 after a payment, is refused job 3
C6_Witness ==
    \E s \in Slots :
        /\ pc[s] = "done" /\ route[s] = "pay" /\ job_id[s] = 3
        /\ profile[s].id = 1 /\ profile[s].balance < 8
        /\ ~paid[3]
        /\ response[s] = Reply(400, "Insufficient funds")

\* C7: a payJob request whose caller is not the client of the job's contract is
\* answered 404 and changes no Profile balance and no Job; every payment that
\* commits is the request of the job's client.
C7_OnlyClientPays ==
    [][\A s \in Slots :
        /\ (/\ pc[s] = "pay_find"
            /\ pc'[s] # "pay_find"
            /\ job_id[s] \in Jobs
            /\ profile[s].id # ClientOf(job_id[s]))
           => (response'[s] = JobNotFound /\ UNCHANGED store)
        /\ (pc[s] = "pay_commit" /\ pc'[s] = "done")
           => profile[s].id = ClientOf(job_id[s])]_vars

\* the contractor of job 2 asked to pay it and was answered 404, the job unpaid
C7_Witness ==
    \E s \in Slots :
        /\ pc[s] = "done" /\ route[s] = "pay" /\ job_id[s] = 2
        /\ profile[s].id = ContractorOf(2)
        /\ ~paid[2]
        /\ response[s] = JobNotFound

\* C8: in every reachable state a job has a paymentDate if and only if it is
\* paid, and no step takes a job's paid flag from true back to false.
C8_PaidOnceWithDate ==
    /\ [](\A j \in Jobs : paid[j] <=> paymentDate[j] # NoDate)
    /\ [][\A j \in Jobs : paid[j] => paid'[j]]_vars

\* job 2, unpaid at first, paid by a payment and dated
C8_Witness == paid[2] /\ paymentDate[2] # NoDate /\ payCount[2] = 1

\* the sum of price over the unpaid jobs of the user's in_progress contracts as
\* client, zero when there is none
UnpaidTotal(u) ==
    SumOver([j \in Jobs |->
                IF ~paid[j] /\ ClientOf(j) = u
                   /\ Contract[JobRow[j].ContractId].status = "in_progress"
                THEN JobRow[j].price ELSE 0], Jobs)

DepositCapExceeded == Reply(400, "Deposit amount exceeds 25% of total jobs to pay")

\* C9: a deposit of a positive amount, when it reads the target's unpaid total:
\* if 4 * amount exceeds the total it is answered 400 with the 25% error and no
\* balance changes, otherwise it goes on to credit the target; its commit
\* answers 200 'Deposit successful' and raises the target's balance by exactly
\* the amount, no other balance changing.
C9_DepositCap ==
    [][\A s \in Slots :
        /\ (pc[s] = "dep_sum" /\ pc'[s] # "dep_sum" /\ amount[s] > 0)
           => IF 4 * amount[s] > UnpaidTotal(userId[s])
              THEN response'[s] = DepositCapExceeded /\ UNCHANGED store
              ELSE pc'[s] = "dep_update" /\ UNCHANGED store
        /\ (pc[s] = "dep_commit" /\ pc'[s] = "done" /\ amount[s] > 0)
           => /\ response'[s] = Reply(200, "Deposit successful")
              /\ balance'[userId[s]] = balance[userId[s]] + amount[s]
              /\ \A p \in Profiles \ {userId[s]} : balance'[p] = balance[p]]_vars

\* with job 2 paid the unpaid total of client 1 is 8: a deposit of 2, a quarter
\* of it, went through
C9_Witness ==
    \E s \in Slots :
        /\ pc[s] = "done" /\ route[s] = "deposit"
        /\ userId[s] = 1 /\ amount[s] = 2
        /\ response[s] = Reply(200, "Deposit successful")
        /\ UnpaidTotal(1) = 8
        /\ deposited = 2
        /\ balance[1] = 9

\* C10: a deposit request of an amount that is zero or negative is answered 400.
C10_NonPositiveAmountRejected ==
    \A s \in Slots :
        (/\ pc[s] = "done" /\ route[s] = "deposit"
         /\ profile[s] # NoProfile
         /\ amount[s] <= 0)
        => response[s].status = 400

DepositSuccessful == Reply(200, "Deposit successful")

NoPaymentYet == \A j \in Jobs : payCount[j] = 0

\* C11: for as long as no payment has committed, every Profile balance is its
\* initial value plus the amounts of the deposits committed to it, however the
\* deposit requests interleave: no increment is lost. (Every deposit of a
\* positive amount that commits here is one to profile 1, the only target with
\* unpaid jobs on an in_progress contract.)
C11_NoDepositLost ==
    NoPaymentYet => balance = [InitBalance EXCEPT ![1] = @ + deposited]

\* two deposits of 2 to profile 1, both resolved by getProfile before either
\* committed, both answered 200: the balance is 14
C11_Witness ==
    /\ NoPaymentYet
    /\ \A s \in Slots :
        /\ pc[s] = "done" /\ route[s] = "deposit"
        /\ userId[s] = 1 /\ amount[s] = 2
        /\ profile[s] = [id |-> 1, balance |-> 10]
        /\ response[s] = DepositSuccessful
    /\ deposited = 4
    /\ balance[1] = 14

\* C12: a step of a payJob request either leaves every balance and every job as
\* it was, or it is the commit, answered 200, which makes the three changes at
\* once: the client's row written with its debited balance, the contractor's
\* balance raised by the price, the job paid and dated, nothing else changed. A
\* request answered 500 has rolled back and holds no lock.
C12_AllOrNothing ==
    [][\A s \in Slots :
        (route[s] = "pay" /\ pc[s] \notin {"idle", "done"} /\ pc'[s] # pc[s])
        => /\ IF pc[s] = "pay_commit"
              THEN LET j == job[s].id IN
                   /\ response'[s] = Reply(200, "Payment successful")
                   /\ ~paid[j] /\ paid'[j] /\ paymentDate'[j] # NoDate
                   /\ balance'[job[s].ClientId] = profile[s].balance - job[s].price
                   /\ balance'[job[s].ContractorId] =
                            balance[job[s].ContractorId] + job[s].price
                   /\ \A p \in Profiles \ {job[s].ClientId, job[s].ContractorId} :
                            balance'[p] = balance[p]
                   /\ \A k \in Jobs \ {j} :
                            paid'[k] = paid[k] /\ paymentDate'[k] = paymentDate[k]
              ELSE UNCHANGED store
           /\ response'[s].status = 500
              => /\ transaction'[s] = "rolledback"
                 /\ \A p \in Profiles : lockP'[p] # s
                 /\ \A k \in Jobs : lockJ'[k] # s]_vars

\* a payment of job 2 by its client failed after the job was found: answered
\* 500, rolled back, the job unpaid and the balances as they began
C12_Witness ==
    \E s \in Slots :
        /\ pc[s] = "done" /\ route[s] = "pay"
        /\ job_id[s] = 2 /\ profile[s].id = 1
        /\ response[s] = Reply(500, "Payment failed")
        /\ transaction[s] = "rolledback"
        /\ ~paid[2]
        /\ balance = InitBalance

\* C13: a request answered with a business-rule failure (400 or 404) has rolled
\* its transaction back.
C13_FailureRolledBack ==
    \A s \in Slots :
        (pc[s] = "done" /\ response[s].status \in {400, 404})
        => transaction[s] = "rolledback"

\* C19: the commit of a payment leaves the client's stored balance at the
\* balance stored just before the commit minus the job's price.
C19_DebitFromStoredBalance ==
    [][\A s \in Slots :
        (pc[s] = "pay_commit" /\ pc'[s] = "done")
        => balance'[job[s].ClientId] = balance[job[s].ClientId] - job[s].price]_vars

\* C20: while no job has been paid, a deposit that repeats one already accepted
\* (same target, same positive amount) is accepted again when it reads the
\* unpaid total, whatever was deposited before and whatever the balance is.
C20_AcceptedAgain ==
    [][\A a, b \in Slots :
        (/\ a # b
         /\ NoPaymentYet
         /\ pc[a] = "done" /\ route[a] = "deposit" /\ response[a] = DepositSuccessful
         /\ amount[a] > 0
         /\ pc[b] = "dep_sum" /\ pc'[b] # "dep_sum"
         /\ userId[b] = userId[a] /\ amount[b] = amount[a])
        => pc'[b] = "dep_update"]_vars

\* two deposits of 2 to profile 1 went through with no job paid: 4 deposited,
\* more than a quarter of the unpaid total of 11
C20_Witness ==
    /\ NoPaymentYet
    /\ \A s \in Slots :
        /\ pc[s] = "done" /\ route[s] = "deposit"
        /\ userId[s] = 1 /\ amount[s] = 2
        /\ response[s] = DepositSuccessful
    /\ 4 * deposited > UnpaidTotal(1)

(* ------------------------- the claims on the reports ------------------ *)

\* job j is paid with its paymentDate in the window the request names
InWindow(j) ==
    /\ jobTable[j].paid
    /\ jobTable[j].paymentDate # NoDate
    /\ DateParse(req.start) <= jobTable[j].paymentDate
    /\ jobTable[j].paymentDate <= DateParse(req.end)

Professions == {ReportContract[c].Contractor.profession : c \in ReportContracts}

\* what the contractors of a profession earned in the window
EarnedBy(p) ==
    SumOver([j \in ReportJobs |-> ReportPrice[j]],
            {j \in ReportJobs :
                /\ InWindow(j)
                /\ ReportContract[jobTable[j].ContractId].Contractor.profession = p})

\* C14: best-profession, answered 200, names no profession when no paid job
\* has its paymentDate in the window [start, end] (both ends included), and
\* otherwise a profession whose contractors earned, over the paid jobs in the
\* window, at least what those of every other profession earned.
C14_BestProfession ==
    (rpc = "done" /\ req.route = "best-profession" /\ res.status = 200)
    => IF \A j \in ReportJobs : ~InWindow(j)
       THEN res.profession = Null
       ELSE /\ res.profession \in Professions
            /\ EarnedBy(res.profession) > 0
            /\ \A q \in Professions : EarnedBy(q) <= EarnedBy(res.profession)

\* the two Test Workers earned 2 each on contracts 1 and 2, the Test Singer 3,
\* all in the window: the answer is Test Worker
C14_Witness ==
    /\ rpc = "done" /\ req.route = "best-profession" /\ res.status = 200
    /\ jobTable[1].ContractId = 1 /\ jobTable[2].ContractId = 2
    /\ EarnedBy("Test Worker") = 4
    /\ EarnedBy("Test Singer") = 3
    /\ res.profession = "Test Worker"

ClientIds == {ReportContract[c].Client.id : c \in ReportContracts}

\* what a client paid in the window
PaidSum(id) ==
    SumOver([j \in ReportJobs |-> ReportPrice[j]],
            {j \in ReportJobs :
                /\ InWindow(j)
                /\ ReportContract[jobTable[j].ContractId].Client.id = id})

ExpectedFullName(id) == CASE id = 1 -> "Test Client"
                          [] id = 3 -> "Other Buyer"
                          [] OTHER -> "Third Payer"

\* the clients with a paid job in the window
PayingClients == {id \in ClientIds : PaidSum(id) > 0}

\* C15: best-clients with limit 1, 2 or 3, answered 200, returns the first
\* limit (or all, when fewer) of the clients with paid jobs in the window: each
\* at most once, in descending order of what they paid, each entry with the
\* client's id, its first and last name joined by a space, and the sum it paid;
\* no client left out paid more than one returned.
C15_BestClients ==
    (/\ rpc = "done" /\ req.route = "best-clients" /\ res.status = 200
     /\ req.limit \in {"1", "2", "3"})
    => LET L == CASE req.limit = "1" -> 1 [] req.limit = "2" -> 2 [] OTHER -> 3
           R == res.clients
           returned == {R[i].id : i \in 1..Len(R)}
       IN /\ Len(R) <= L
          /\ Len(R) = Min(L, Cardinality(PayingClients))
          /\ returned \subseteq PayingClients
          /\ \A i, k \in 1..Len(R) : i # k => R[i].id # R[k].id
          /\ \A i, k \in 1..Len(R) : i < k => R[i].paid >= R[k].paid
          /\ \A i \in 1..Len(R) :
                /\ R[i].paid = PaidSum(R[i].id)
                /\ R[i].fullName = ExpectedFullName(R[i].id)
          /\ \A out \in PayingClients \ returned, in \in returned :
                PaidSum(out) <= PaidSum(in)

\* three clients paid in the window, client 5 the most; with limit 2 the answer
\* is client 5 and one of the other two
C15_Witness ==
    /\ rpc = "done" /\ req.route = "best-clients" /\ res.status = 200
    /\ req.limit = "2"
    /\ Cardinality(PayingClients) = 3
    /\ Len(res.clients) = 2
    /\ res.clients[1] = [id |-> 5, fullName |-> "Third Payer", paid |-> 3]
    /\ res.clients[2].paid = 2

\* C16: a report request whose start or end is missing or names no date, or
\* whose start is after its end, is answered 400 with an error and no report
\* data, and never reaches the handler that runs the query.
C16_InvalidDateRange ==
    (/\ req.route \in {"best-profession", "best-clients"}
     /\ \/ req.start \notin {"2024-01-01", "2024-12-31"}
        \/ req.end \notin {"2024-01-01", "2024-12-31"}
        \/ (req.start = "2024-12-31" /\ req.end = "2024-01-01"))
    => /\ rpc = "done"
       /\ res.status = 400
       /\ res.error # ""
       /\ res.profession = Null
       /\ res.clients = << >>

\* best-clients from 2024-12-31 to 2024-01-01 over a table with a paid job
C16_Witness ==
    /\ rpc = "done" /\ req.route = "best-clients"
    /\ req.start = "2024-12-31" /\ req.end = "2024-01-01"
    /\ \E j \in ReportJobs : jobTable[j].paid
    /\ res = [NoRes EXCEPT !.status = 400, !.error = "Start date must be before end date"]

\* C17: a best-clients request over a valid window whose limit is missing or
\* is not a number is answered 200 with a result of the request with limit 2.
C17_DefaultLimit ==
    (/\ req.route = "best-clients"
     /\ rpc \notin {"idle", "handler"}
     /\ DateRangeError(req.start, req.end) = NoError
     /\ req.limit \in {Undefined, "abc"})
    => /\ rpc = "done"
       /\ res.status = 200
       /\ Len(res.clients) <= 2
       /\ res.clients \in BestClientsRows(req.start, req.end, 2)

\* C18: GET /contracts/:id by a caller with a Profile answers 200 with the
\* contract when the caller is the contract's client or its contractor, and
\* 404 without contract data otherwise, a contract id that names no contract
\* included; a caller without a Profile is answered 401 without contract data.
C18_ContractOnlyForParties ==
    (req.route = "contracts" /\ rpc = "done")
    => LET caller == req.profile_id
           id == req.id
       IN IF caller \notin Profiles
          THEN res.status = 401 /\ res.contract = NoContract
          ELSE IF id \in Contracts
                  /\ caller \in {Contract[id].ClientId, Contract[id].ContractorId}
               THEN /\ res.status = 200
                    /\ res.contract.id = id
                    /\ caller \in {res.contract.ClientId, res.contract.ContractorId}
               ELSE res.status = 404 /\ res.contract = NoContract

\* profile 3, the client of contract 2 only, asks for contract 1
C18_Witness ==
    /\ rpc = "done" /\ req.route = "contracts"
    /\ req.profile_id = 3 /\ req.id = 1
    /\ res.status = 404
    /\ res.contract = NoContract

====
